---------------------------- MODULE Spec2Model ----------------------------
(***************************************************************************)
(* Alpaca: single-file and manifest-driven AES-128-GCM file encryption.    *)
(* A model of src/src/main.rs: the credential codec, the path/extension    *)
(* rules, the encrypt and decrypt file transitions, root resolution and    *)
(* the parallel manifest processor.                                        *)
(*                                                                         *)
(* Strings are sequences of one-character strings, byte strings are        *)
(* sequences of numbers in 0..255, a path is a sequence of components and  *)
(* a component is a string.  File contents are symbolic terms:             *)
(*   <<"raw", b>>                    plaintext number b                    *)
(*   <<"ct", key, nonce, p, tag>>    AES-GCM output for plaintext p        *)
(*   <<"gz", hdr, body, trailer>>    a gzip member holding body            *)
(***************************************************************************)
EXTENDS Integers, Sequences, FiniteSets, TLC

VARIABLES
    fs,       \* the filesystem: a function from the paths of existing files to contents
    fs0,      \* the filesystem as it was when the current invocation started
    host,     \* the host environment: base directories, working directory, pool size
    mode,     \* "idle" | "encrypt" | "decrypt" | "batch" | "cred" | "root"
    tasks,    \* the operations of the current invocation (one per manifest entry)
    leaves,   \* manifest mode: the sequential leaves rayon split the entries into
    prev,     \* the immediately preceding successful single-file encrypt, or None
    nruns     \* invocations so far

vars == <<fs, fs0, host, mode, tasks, leaves, prev, nruns>>

None == <<"None">>

Some(x) == <<"Some", x>>

IsSome(o) == o[1] = "Some"

Unwrap(o) == o[2]

Ok(v) == [ok |-> TRUE, val |-> v, err |-> ""]

Err(e) == [ok |-> FALSE, val |-> <<>>, err |-> e]

Max(a, b) == IF a >= b THEN a ELSE b

(***************************************************************************)
(* Bounds of the model.                                                    *)
(***************************************************************************)
NumKeys == 2

MaxRuns == 3

MaxEntries == 3

MaxThreads == 2

NumCredSeeds == 3

(***************************************************************************)
(* Program constants: the GcmKey and GcmNonce array lengths.               *)
(***************************************************************************)
KeyLen == 16

NonceLen == 12

(***************************************************************************)
(* Characters and case mapping (str::to_uppercase on ASCII).               *)
(***************************************************************************)
LowerChars ==
    <<"a","b","c","d","e","f","g","h","i","j","k","l","m",
      "n","o","p","q","r","s","t","u","v","w","x","y","z">>

UpperChars ==
    <<"A","B","C","D","E","F","G","H","I","J","K","L","M",
      "N","O","P","Q","R","S","T","U","V","W","X","Y","Z">>

UpperOf == [c \in {LowerChars[i] : i \in 1..26} |->
               UpperChars[CHOOSE i \in 1..26 : LowerChars[i] = c]]

UpperChar(c) == IF c \in DOMAIN UpperOf THEN UpperOf[c] ELSE c

ToUppercase(s) == [i \in 1..Len(s) |-> UpperChar(s[i])]

(***************************************************************************)
(* hex::encode and hex::decode.                                            *)
(***************************************************************************)
HexLower == <<"0","1","2","3","4","5","6","7","8","9","a","b","c","d","e","f">>

HexUpper == <<"0","1","2","3","4","5","6","7","8","9","A","B","C","D","E","F">>

\* hex::encode with the two digits of every byte in the wrong order.
HexEncodeLowFirst(bytes) ==
    [i \in 1..(2 * Len(bytes)) |->
        LET b == bytes[(i + 1) \div 2]
        IN  IF i % 2 = 1 THEN HexLower[(b % 16) + 1] ELSE HexLower[(b \div 16) + 1]]

HexEncode(bytes) ==
    [i \in 1..(2 * Len(bytes)) |->
        LET b == bytes[(i + 1) \div 2]
        IN  IF i % 2 = 1 THEN HexLower[(b \div 16) + 1] ELSE HexLower[(b % 16) + 1]]

HexVal(c) ==
    IF \E i \in 1..16 : HexLower[i] = c
    THEN (CHOOSE i \in 1..16 : HexLower[i] = c) - 1
    ELSE IF \E i \in 1..16 : HexUpper[i] = c
    THEN (CHOOSE i \in 1..16 : HexUpper[i] = c) - 1
    ELSE -1

HexDecode(s) ==
    IF Len(s) % 2 = 1 THEN Err("OddLength")
    ELSE IF \E i \in 1..Len(s) : HexVal(s[i]) < 0 THEN Err("InvalidHexCharacter")
    ELSE Ok([i \in 1..(Len(s) \div 2) |-> 16 * HexVal(s[2 * i - 1]) + HexVal(s[2 * i])])

(***************************************************************************)
(* str::split('#'): the pieces between the delimiters, at least one.       *)
(***************************************************************************)
RECURSIVE SplitHash(_)
SplitHash(s) ==
    IF \A i \in 1..Len(s) : s[i] # "#" THEN <<s>>
    ELSE LET i == CHOOSE j \in 1..Len(s) :
                      s[j] = "#" /\ \A h \in 1..(j - 1) : s[h] # "#"
         IN  <<SubSeq(s, 1, i - 1)>> \o SplitHash(SubSeq(s, i + 1, Len(s)))

(***************************************************************************)
(* The credential: printed by encrypt, decoded at the head of decrypt.     *)
(***************************************************************************)
EncodeCredential(key, nonce) == HexEncode(key) \o <<"#">> \o HexEncode(nonce)

\* decrypt without the cipher's check of the key length.
DecodeCredentialAnyKeyLen(cred) ==
    LET creds == SplitHash(cred)
        key == HexDecode(creds[1])
    IN  IF ~key.ok THEN Err("Malformed key")
        ELSE IF Len(creds) < 2 THEN Err("index out of bounds")
        ELSE LET nonce == HexDecode(creds[2])
             IN  IF ~nonce.ok THEN Err("Malformed key(nonce)")
                 ELSE IF Len(nonce.val) # NonceLen THEN Err("Nonce::from_slice")
                 ELSE Ok([key |-> key.val, nonce |-> nonce.val])

DecodeCredential(cred) ==
    LET creds == SplitHash(cred)
        key == HexDecode(creds[1])
    IN  IF ~key.ok THEN Err("Malformed key")
        ELSE IF Len(creds) < 2 THEN Err("index out of bounds")
        ELSE LET nonce == HexDecode(creds[2])
             IN  IF ~nonce.ok THEN Err("Malformed key(nonce)")
                 ELSE IF Len(nonce.val) # NonceLen THEN Err("Nonce::from_slice")
                 ELSE IF Len(key.val) # KeyLen THEN Err("Failed to initialize cipher")
                 ELSE Ok([key |-> key.val, nonce |-> nonce.val])

(***************************************************************************)
(* Paths.  A component is a sequence of units; a unit is a character, or   *)
(* "xFF", a byte that is not valid UTF-8 (file names are byte strings on   *)
(* Unix), or "uFFFD", the replacement character.                           *)
(***************************************************************************)
IsAbsolute(p) == Len(p) > 0 /\ p[1] = <<"/">>

\* A join that appends whatever it is given.
JoinAppends(base, p) == base \o p

\* PathBuf::join: an absolute argument replaces the base.
Join(base, p) == IF IsAbsolute(p) THEN p ELSE base \o p

\* What the operating system opens for path p in working directory cwd.
OsPath(cwd, p) == Join(cwd, p)

FileName(p) == p[Len(p)]

LastDot(f) ==
    IF \E i \in 1..Len(f) : f[i] = "."
    THEN CHOOSE i \in 1..Len(f) : f[i] = "." /\ \A j \in (i + 1)..Len(f) : f[j] # "."
    ELSE 0

\* Path::extension: after the last dot of the file name, unless there is no
\* dot or the only candidate dot is the leading one.
Extension(p) ==
    LET f == FileName(p)
        d == LastDot(f)
    IN  IF d <= 1 THEN None ELSE Some(SubSeq(f, d + 1, Len(f)))

FileStem(p) ==
    LET f == FileName(p)
        d == LastDot(f)
    IN  IF d <= 1 THEN f ELSE SubSeq(f, 1, d - 1)

\* Path::with_extension: truncate to the stem, then push "." and the new
\* extension unless it is empty.
WithExtension(p, ext) ==
    [p EXCEPT ![Len(p)] = FileStem(p) \o (IF ext = <<>> THEN <<>> ELSE <<".">> \o ext)]

\* OsStr::to_string_lossy: invalid bytes become U+FFFD.
ToStringLossy(s) == [i \in 1..Len(s) |-> IF s[i] = "xFF" THEN "uFFFD" ELSE s[i]]

Alp == <<"a", "l", "p">>

\* An encrypt that leaves the name of a file that already ends in `.alp`.
EncryptNewPathOnce(p) ==
    LET previous_extension == Extension(p)
    IN  IF IsSome(previous_extension)
        THEN IF Unwrap(previous_extension) = Alp THEN p
             ELSE WithExtension(p, ToStringLossy(Unwrap(previous_extension)) \o <<".">> \o Alp)
        ELSE WithExtension(p, Alp)

\* encrypt, lines 108-115: the path the ciphertext is stored at.
EncryptNewPath(p) ==
    LET previous_extension == Extension(p)
    IN  IF IsSome(previous_extension)
        THEN WithExtension(p, ToStringLossy(Unwrap(previous_extension)) \o <<".">> \o Alp)
        ELSE WithExtension(p, Alp)

(***************************************************************************)
(* The cipher and the codec, on symbolic contents.                         *)
(***************************************************************************)
Raw(b) == <<"raw", b>>

\* Aes128Gcm::encrypt: the ciphertext carries a valid tag for (key, nonce).
CipherEncrypt(key, nonce, input) == <<"ct", key, nonce, input, "tag">>

\* A cipher whose tag does not depend on the nonce.
CipherDecryptAnyNonce(key, nonce, input) ==
    IF input[1] = "ct" /\ input[5] = "tag" /\ input[2] = key
    THEN Ok(input[4])
    ELSE Err("Failed to decrypt")

\* Aes128Gcm::decrypt: the plaintext if the tag verifies under (key, nonce).
CipherDecrypt(key, nonce, input) ==
    IF input[1] = "ct" /\ input[5] = "tag" /\ input[2] = key /\ input[3] = nonce
    THEN Ok(input[4])
    ELSE Err("Failed to decrypt")

\* gzip(_, Compress): one gzip member, header written by flate2 (mtime 0).
GzipCompress(input) == <<"gz", 0, input, "crc">>

\* gzip(_, Decompress): GzDecoder checks the magic, the deflate stream and
\* the CRC/length trailer; the header's mtime is parsed and ignored.
GzipDecompress(input) ==
    IF input[1] = "gz" /\ input[4] = "crc" THEN Ok(input[3]) ELSE Err("gzip")

(***************************************************************************)
(* Key material (generate_key / generate_nonce draw from OsRng) and the    *)
(* credential strings a caller may hand to decrypt.                        *)
(***************************************************************************)
KeyOf(s) == [i \in 1..KeyLen |-> (s * 5 + i * 17) % 256]

NonceOf(s) == [i \in 1..NonceLen |-> (s * 83 + i * 29) % 256]

GenKeys == {KeyOf(s) : s \in 1..NumKeys}

GenNonces == {NonceOf(1), NonceOf(2)}

\* Strings derived from the credential of (k, n): the first three decode to
\* (k, n); the others are damaged in one place each.
CredVariants(k, n) ==
    LET hk == HexEncode(k)
        hn == HexEncode(n)
        d  == <<"#">>
    IN  { hk \o d \o hn,
          ToUppercase(hk) \o d \o hn,
          hk \o d \o hn \o d \o <<"f", "f">>,
          hk \o hn,
          <<"g">> \o Tail(hk) \o d \o hn,
          hk \o d \o <<"z">> \o Tail(hn),
          Tail(hk) \o d \o hn,
          hk \o d \o Tail(hn),
          SubSeq(hk, 3, Len(hk)) \o d \o hn,
          hk \o <<"0", "0">> \o d \o hn,
          hk \o d \o SubSeq(hn, 3, Len(hn)),
          hk \o d \o hn \o <<"0", "0">>,
          d,
          <<>> }

ValidCreds == {EncodeCredential(k, n) : k \in GenKeys, n \in GenNonces}

CredChoices == ValidCreds \cup CredVariants(KeyOf(1), NonceOf(1))

(***************************************************************************)
(* The filesystem (std::fs::read, rename, write on whole files).           *)
(***************************************************************************)
Exists(f, q) == q \in DOMAIN f

\* rename(2): the destination, if any, is replaced.
FsRename(f, from, to) ==
    [q \in (DOMAIN f \ {from}) \cup {to} |-> IF q = to THEN f[from] ELSE f[q]]

\* std::fs::write: create or truncate, then write the whole buffer.
FsWrite(f, q, c) == [r \in DOMAIN f \cup {q} |-> IF r = q THEN c ELSE f[r]]

(***************************************************************************)
(* One operation: a Schematic entry (action, root, key, filepath) and the  *)
(* locals of the closure, encrypt() or decrypt() working on it.            *)
(***************************************************************************)
NewTask(action, root, key, filepath, kind, pc) ==
    [action |-> action, root |-> root, key |-> key, filepath |-> filepath,
     kind |-> kind, pc |-> pc, path |-> filepath,
     gkey |-> None, gnonce |-> None, input |-> None, buf |-> None,
     newpath |-> None, ops |-> <<>>, printed |-> None, why |-> ""]

Panic(t, msg) == [t EXCEPT !.pc = "panicked", !.why = msg]

At(i, pc) == i \in 1..Len(tasks) /\ tasks[i].pc = pc

Target(t) == OsPath(host.cwd, t.path)

\* A decrypt that writes the stripped path without renaming the file to it.
DecryptTransitionNoRename(filepath) ==
    LET file_extension == Extension(filepath)
    IN  IF IsSome(file_extension)
        THEN IF Unwrap(file_extension) = Alp
             THEN [pc |-> "write", newpath |-> Some(WithExtension(filepath, <<>>))]
             ELSE [pc |-> "print", newpath |-> None]
        ELSE [pc |-> "write", newpath |-> Some(filepath)]

\* decrypt, lines 136-145: what happens to the plaintext.
DecryptTransition(filepath) ==
    LET file_extension == Extension(filepath)
    IN  IF IsSome(file_extension)
        THEN IF Unwrap(file_extension) = Alp
             THEN [pc |-> "rename", newpath |-> Some(WithExtension(filepath, <<>>))]
             ELSE [pc |-> "print", newpath |-> None]
        ELSE [pc |-> "write", newpath |-> Some(filepath)]

\* A main that does not look for the file before it starts.
CheckExistsSkipped(i) ==
    /\ At(i, "exists")
    /\ tasks' = [tasks EXCEPT ![i] =
           [@ EXCEPT !.pc = IF tasks[i].kind = "ENCRYPT" THEN "keygen" ELSE "decode"]]
    /\ UNCHANGED <<fs, fs0, host, mode, leaves, prev, nruns>>

\* main, lines 164-166 and 175-177: the single-file precondition.
CheckExists(i) ==
    /\ At(i, "exists")
    /\ LET t == tasks[i]
       IN  tasks' = [tasks EXCEPT ![i] =
               IF Exists(fs, Target(t))
               THEN [t EXCEPT !.pc = IF t.kind = "ENCRYPT" THEN "keygen" ELSE "decode"]
               ELSE Panic(t, "Specified file does not exist.")]
    /\ UNCHANGED <<fs, fs0, host, mode, leaves, prev, nruns>>

\* main, lines 168-169 and 230-231: the key material drawn is (k, n).
WithKeys(t, k, n) == [t EXCEPT !.gkey = Some(k), !.gnonce = Some(n), !.pc = "read"]

KeyGen(i) ==
    /\ At(i, "keygen")
    /\ \E k \in GenKeys, n \in GenNonces :
          tasks' = [tasks EXCEPT ![i] = WithKeys(tasks[i], k, n)]
    /\ UNCHANGED <<fs, fs0, host, mode, leaves, prev, nruns>>

\* decrypt, lines 122-127.
Decoded(t) ==
    LET c == DecodeCredential(Unwrap(t.key))
    IN  IF c.ok
        THEN [t EXCEPT !.gkey = Some(c.val.key), !.gnonce = Some(c.val.nonce),
                       !.pc = "read"]
        ELSE Panic(t, c.err)

Decode(i) ==
    /\ At(i, "decode")
    /\ tasks' = [tasks EXCEPT ![i] = Decoded(tasks[i])]
    /\ UNCHANGED <<fs, fs0, host, mode, leaves, prev, nruns>>

\* encrypt, lines 101-115: read, encrypt, compress, compute the new path.
EncryptRead(i) ==
    /\ At(i, "read")
    /\ tasks[i].kind = "ENCRYPT"
    /\ LET t == tasks[i]
           t1 == [t EXCEPT !.ops = Append(@, "read")]
       IN  tasks' = [tasks EXCEPT ![i] =
               IF ~Exists(fs, Target(t))
               THEN Panic(t1, "Error reading input file")
               ELSE LET input == fs[Target(t)]
                        output == GzipCompress(
                            CipherEncrypt(Unwrap(t.gkey), Unwrap(t.gnonce), input))
                    IN  [t1 EXCEPT !.input = Some(input), !.buf = Some(output),
                                   !.newpath = Some(EncryptNewPath(t.path)),
                                   !.pc = "rename"]]
    /\ UNCHANGED <<fs, fs0, host, mode, leaves, prev, nruns>>

\* decrypt, lines 129-139: read, decompress, decrypt, choose the transition.
DecryptRead(i) ==
    /\ At(i, "read")
    /\ tasks[i].kind = "DECRYPT"
    /\ LET t == tasks[i]
           t1 == [t EXCEPT !.ops = Append(@, "read")]
       IN  tasks' = [tasks EXCEPT ![i] =
               IF ~Exists(fs, Target(t))
               THEN Panic(t1, "Error reading input file")
               ELSE LET input == fs[Target(t)]
                        t2 == [t1 EXCEPT !.input = Some(input)]
                        unz == GzipDecompress(input)
                    IN  IF ~unz.ok THEN Panic(t2, unz.err)
                        ELSE LET plain == CipherDecrypt(
                                     Unwrap(t.gkey), Unwrap(t.gnonce), unz.val)
                                 tr == DecryptTransition(t.path)
                             IN  IF ~plain.ok THEN Panic(t2, plain.err)
                                 ELSE [t2 EXCEPT !.buf = Some(plain.val),
                                                 !.newpath = tr.newpath,
                                                 !.pc = tr.pc]]
    /\ UNCHANGED <<fs, fs0, host, mode, leaves, prev, nruns>>

\* A rename that does not mind a source that is gone.
RenameIgnoresMissing(i) ==
    /\ At(i, "rename")
    /\ LET t == tasks[i]
           t1 == [t EXCEPT !.ops = Append(@, "rename"), !.pc = "write"]
           to == OsPath(host.cwd, Unwrap(t.newpath))
       IN  /\ fs' = IF Exists(fs, Target(t)) THEN FsRename(fs, Target(t), to) ELSE fs
           /\ tasks' = [tasks EXCEPT ![i] = t1]
    /\ UNCHANGED <<fs0, host, mode, leaves, prev, nruns>>

\* std::fs::rename at lines 112, 116 and 140.
Rename(i) ==
    /\ At(i, "rename")
    /\ LET t == tasks[i]
           t1 == [t EXCEPT !.ops = Append(@, "rename")]
           to == OsPath(host.cwd, Unwrap(t.newpath))
       IN  IF Exists(fs, Target(t))
           THEN /\ fs' = FsRename(fs, Target(t), to)
                /\ tasks' = [tasks EXCEPT ![i] = [t1 EXCEPT !.pc = "write"]]
           ELSE /\ fs' = fs
                /\ tasks' = [tasks EXCEPT ![i] = Panic(t1, "Failed to rename a file")]
    /\ UNCHANGED <<fs0, host, mode, leaves, prev, nruns>>

\* A write that takes its bytes from a buffer the entries share: it holds
\* what the first entry produced, once it has produced something.
WriteSharedBuffer(i) ==
    /\ At(i, "write")
    /\ LET t == tasks[i]
           b == IF IsSome(tasks[1].buf) THEN tasks[1].buf ELSE t.buf
       IN  /\ fs' = FsWrite(fs, OsPath(host.cwd, Unwrap(t.newpath)), Unwrap(b))
           /\ tasks' = [tasks EXCEPT ![i] =
                  [t EXCEPT !.ops = Append(@, "write"), !.pc = "print"]]
    /\ UNCHANGED <<fs0, host, mode, leaves, prev, nruns>>

\* std::fs::write at lines 113, 117, 141 and 144.
Write(i) ==
    /\ At(i, "write")
    /\ LET t == tasks[i]
       IN  /\ fs' = FsWrite(fs, OsPath(host.cwd, Unwrap(t.newpath)), Unwrap(t.buf))
           /\ tasks' = [tasks EXCEPT ![i] =
                  [t EXCEPT !.ops = Append(@, "write"), !.pc = "print"]]
    /\ UNCHANGED <<fs0, host, mode, leaves, prev, nruns>>

\* println! at lines 172, 180, 234 and 285; in single-file mode the credential
\* of a finished encrypt is what the caller keeps for the decrypt to come.
PrintDone(i) ==
    /\ At(i, "print")
    /\ LET t == tasks[i]
           cred == EncodeCredential(Unwrap(t.gkey), Unwrap(t.gnonce))
       IN  /\ tasks' = [tasks EXCEPT ![i] =
                  [t EXCEPT !.pc = "done",
                            !.printed = IF t.kind = "ENCRYPT" THEN Some(cred) ELSE None]]
           /\ prev' = IF mode = "encrypt"
                      THEN Some([path |-> t.path, newpath |-> Unwrap(t.newpath),
                                 content |-> Unwrap(t.input), cred |-> cred])
                      ELSE prev
    /\ UNCHANGED <<fs, fs0, host, mode, leaves, nruns>>

(***************************************************************************)
(* Single-file mode: a caller runs `encrypt <file>` and `decrypt -k <cred> *)
(* <file>` one after the other in a working directory; between runs the    *)
(* stored files may be renamed or modified by their owner.                 *)
(***************************************************************************)
RootDir == <<"/">>

Cwd == <<RootDir, <<"w">>>>

HomeDir == <<RootDir, <<"h">>>>

ConfigDir == <<RootDir, <<"h">>, <<"c">>>>

CacheDir == <<RootDir, <<"h">>, <<"k">>>>

TempDir == <<RootDir, <<"t">>>>

Host(home, config, cache, threads) ==
    [home |-> home, config |-> config, cache |-> cache, temp |-> TempDir,
     cwd |-> Cwd, threads |-> threads]

NoFilesAtAll == [q \in {} |-> None]

\* File names: with an extension, without, hidden, with an empty extension,
\* and with an extension that is not valid UTF-8.
BaseNames ==
    { <<"r", ".", "c">>, <<"R">>, <<".", "h">>, <<"d", ".">>, <<"r", ".", "xFF">> }

MissingName == <<"m", ".", "c">>

MoveNames == { <<"b", ".", "b">>, <<"n">> }

Contents == {Raw(1), Raw(2)}

InitSingle ==
    /\ \E f \in BaseNames, c \in Contents : fs = (OsPath(Cwd, <<f>>) :> c)
    /\ fs0 = fs
    /\ host = Host(Some(HomeDir), Some(ConfigDir), Some(CacheDir), 1)
    /\ mode = "idle"
    /\ tasks = <<>>
    /\ leaves = {}
    /\ prev = None
    /\ nruns = 0

SinglePaths == {<<FileName(q)>> : q \in DOMAIN fs} \cup {<<MissingName>>}

\* main, Args::Encrypt (line 163).
InvokeEncrypt ==
    /\ mode = "idle"
    /\ nruns < MaxRuns
    /\ \E p \in SinglePaths :
          tasks' = <<NewTask(<<>>, None, None, p, "ENCRYPT", "exists")>>
    /\ mode' = "encrypt"
    /\ prev' = None
    /\ fs0' = fs
    /\ nruns' = nruns + 1
    /\ UNCHANGED <<fs, host, leaves>>

\* main, Args::Decrypt (line 174).
InvokeDecrypt ==
    /\ mode = "idle"
    /\ nruns < MaxRuns
    /\ \E p \in SinglePaths, cred \in CredChoices :
          tasks' = <<NewTask(<<>>, None, Some(cred), p, "DECRYPT", "exists")>>
    /\ mode' = "decrypt"
    /\ fs0' = fs
    /\ nruns' = nruns + 1
    /\ UNCHANGED <<fs, host, leaves, prev>>

\* The process ends: main returns after println!, or the panic unwinds it.
Exit ==
    /\ mode \in {"encrypt", "decrypt"}
    /\ tasks[1].pc \in {"done", "panicked"}
    /\ prev' = IF mode = "encrypt" /\ tasks[1].pc = "done" THEN prev ELSE None
    /\ mode' = "idle"
    /\ tasks' = <<>>
    /\ UNCHANGED <<fs, fs0, host, leaves, nruns>>

\* The owner of a stored artifact changes its bytes: the gzip header's mtime
\* field, the compressed stream (so the member no longer inflates), or a
\* byte of the ciphertext inside.
Tampered(c, kind) ==
    CASE kind = "mtime" -> <<"gz", 1, c[3], c[4]>>
      [] kind = "stream" -> <<"gz", c[2], c[3], "bad">>
      [] kind = "cipher" -> <<"gz", c[2], [c[3] EXCEPT ![5] = "bad"], c[4]>>

Tamper ==
    /\ mode = "idle"
    /\ nruns < MaxRuns
    /\ \E q \in DOMAIN fs, kind \in {"mtime", "stream", "cipher"} :
          /\ fs[q][1] = "gz"
          /\ fs[q][3][1] = "ct"
          /\ fs' = [fs EXCEPT ![q] = Tampered(fs[q], kind)]
    /\ prev' = None
    /\ nruns' = nruns + 1
    /\ UNCHANGED <<fs0, host, mode, tasks, leaves>>

\* The owner renames a stored file.
Move ==
    /\ mode = "idle"
    /\ nruns < MaxRuns
    /\ \E q \in DOMAIN fs, f \in MoveNames :
          /\ OsPath(Cwd, <<f>>) \notin DOMAIN fs
          /\ fs' = FsRename(fs, q, OsPath(Cwd, <<f>>))
    /\ prev' = None
    /\ nruns' = nruns + 1
    /\ UNCHANGED <<fs0, host, mode, tasks, leaves>>

Next ==
    \/ InvokeEncrypt
    \/ InvokeDecrypt
    \/ CheckExists(1)
    \/ KeyGen(1)
    \/ Decode(1)
    \/ EncryptRead(1)
    \/ DecryptRead(1)
    \/ Rename(1)
    \/ Write(1)
    \/ PrintDone(1)
    \/ Exit
    \/ Tamper
    \/ Move

Spec == InitSingle /\ [][Next]_vars

(***************************************************************************)
(* Single runs under I/O failures.  The operating system may refuse a      *)
(* read or a rename (nothing changes), and std::fs::write may fail when it *)
(* creates the file (nothing changes), after it truncated it (the file is  *)
(* empty) or in the middle of write_all (the file holds part of the        *)
(* bytes).  Each of these is an expect() that panics.                      *)
(***************************************************************************)
EmptyFile == <<"empty">>

PartOf(c) == <<"part", c>>

\* std::fs::read fails at lines 101 and 129.
ReadFails(i) ==
    /\ At(i, "read")
    /\ tasks' = [tasks EXCEPT ![i] =
           Panic([@ EXCEPT !.ops = Append(@, "read")], "Error reading input file")]
    /\ UNCHANGED <<fs, fs0, host, mode, leaves, prev, nruns>>

\* std::fs::rename fails at lines 112, 116 and 140.
RenameFails(i) ==
    /\ At(i, "rename")
    /\ tasks' = [tasks EXCEPT ![i] =
           Panic([@ EXCEPT !.ops = Append(@, "rename")], "Failed to rename a file")]
    /\ UNCHANGED <<fs, fs0, host, mode, leaves, prev, nruns>>

\* std::fs::write fails at lines 113, 117, 141 and 144.
WriteFails(i) ==
    /\ At(i, "write")
    /\ LET t == tasks[i]
           q == OsPath(host.cwd, Unwrap(t.newpath))
       IN  /\ \E c \in {fs[q], EmptyFile, PartOf(Unwrap(t.buf))} : fs' = FsWrite(fs, q, c)
           /\ tasks' = [tasks EXCEPT ![i] =
                  Panic([t EXCEPT !.ops = Append(@, "write")], "Failed to write data")]
    /\ UNCHANGED <<fs0, host, mode, leaves, prev, nruns>>

\* The runs explored: the file and its contents, the operation, the
\* credential of a decrypt.
FaultCase(name, content, kind, key) ==
    [name |-> name, content |-> content, kind |-> kind, key |-> key]

WrongKeyCred == EncodeCredential(KeyOf(2), NonceOf(1))

FaultCases ==
    { FaultCase(<<"r", ".", "c">>, Raw(1), "ENCRYPT", None),
      FaultCase(<<"R">>, Raw(1), "ENCRYPT", None),
      FaultCase(<<"s", ".", "a", "l", "p">>, GzipCompress(CipherEncrypt(KeyOf(1), NonceOf(1), Raw(2))),
                "DECRYPT", Some(EncodeCredential(KeyOf(1), NonceOf(1)))),
      FaultCase(<<"R">>, GzipCompress(CipherEncrypt(KeyOf(1), NonceOf(1), Raw(2))),
                "DECRYPT", Some(EncodeCredential(KeyOf(1), NonceOf(1)))),
      FaultCase(<<"r", ".", "c">>, GzipCompress(CipherEncrypt(KeyOf(1), NonceOf(1), Raw(2))),
                "DECRYPT", Some(EncodeCredential(KeyOf(1), NonceOf(1)))),
      FaultCase(<<"s", ".", "a", "l", "p">>, GzipCompress(CipherEncrypt(KeyOf(1), NonceOf(1), Raw(2))),
                "DECRYPT", Some(WrongKeyCred)),
      FaultCase(<<"s", ".", "a", "l", "p">>, GzipCompress(CipherEncrypt(KeyOf(1), NonceOf(1), Raw(2))),
                "DECRYPT", Some(HexEncode(KeyOf(1)))),
      FaultCase(<<"s", ".", "a", "l", "p">>, Raw(2),
                "DECRYPT", Some(EncodeCredential(KeyOf(1), NonceOf(1)))) }

\* What else the directory holds: nothing, or a file where the result of the
\* run is to go.
OtherFiles(c) ==
    LET d == IF c.kind = "ENCRYPT" THEN EncryptNewPath(<<c.name>>)
             ELSE IF IsSome(DecryptTransition(<<c.name>>).newpath)
             THEN Unwrap(DecryptTransition(<<c.name>>).newpath)
             ELSE <<c.name>>
    IN  {NoFilesAtAll} \cup
        (IF d # <<c.name>> THEN {OsPath(Cwd, d) :> Raw(3)} ELSE {})

InitFault ==
    /\ \E c \in FaultCases :
          /\ \E o \in OtherFiles(c) : fs = (OsPath(Cwd, <<c.name>>) :> c.content) @@ o
          /\ tasks = <<NewTask(<<>>, None, c.key, <<c.name>>, c.kind, "exists")>>
          /\ mode = IF c.kind = "ENCRYPT" THEN "encrypt" ELSE "decrypt"
    /\ fs0 = fs
    /\ host = Host(Some(HomeDir), Some(ConfigDir), Some(CacheDir), 1)
    /\ leaves = {}
    /\ prev = None
    /\ nruns = 1

NextFault ==
    \/ CheckExists(1)
    \/ KeyGen(1)
    \/ Decode(1)
    \/ EncryptRead(1)
    \/ DecryptRead(1)
    \/ Rename(1)
    \/ Write(1)
    \/ PrintDone(1)
    \/ ReadFails(1)
    \/ RenameFails(1)
    \/ WriteFails(1)

SpecFault == InitFault /\ [][NextFault]_vars

(***************************************************************************)
(* Properties of the single-file transitions.                              *)
(***************************************************************************)
Tasks == {tasks[i] : i \in 1..Len(tasks)}

\* The operation returned normally: only its println! is left, or nothing.
Succeeded(t) == t.pc \in {"print", "done"}

\* The path the specification gives an encrypted file: extension E becomes
\* E.alp, no extension becomes alp.
StatedEncryptPath(p) ==
    LET e == Extension(p)
    IN  IF IsSome(e)
        THEN [p EXCEPT ![Len(p)] = FileStem(p) \o <<".">> \o Unwrap(e) \o <<".">> \o Alp]
        ELSE [p EXCEPT ![Len(p)] = @ \o <<".">> \o Alp]

\* C1: a successful single-file encrypt of P (contents B) followed by a
\* decrypt of the resulting path with the printed credential leaves B at P
\* and nothing at the intermediate path.
C1_RoundTrip ==
    \A t \in Tasks :
        (/\ mode = "decrypt"
         /\ Succeeded(t)
         /\ IsSome(prev)
         /\ t.filepath = Unwrap(prev).newpath
         /\ t.key = Some(Unwrap(prev).cred))
        => LET e == Unwrap(prev)
           IN  /\ Exists(fs, OsPath(host.cwd, e.path))
               /\ fs[OsPath(host.cwd, e.path)] = e.content
               /\ ~Exists(fs, OsPath(host.cwd, e.newpath))

\* C5: after a successful encrypt of P nothing is left at P and the
\* compressed ciphertext is at P with extension E.alp (or alp).
C5_EncryptTransition ==
    \A t \in Tasks :
        (t.kind = "ENCRYPT" /\ Succeeded(t) /\ mode = "encrypt")
        => LET new == OsPath(host.cwd, StatedEncryptPath(t.path))
           IN  /\ ~Exists(fs, Target(t))
               /\ Exists(fs, new)
               /\ fs[new] = GzipCompress(CipherEncrypt(
                                Unwrap(t.gkey), Unwrap(t.gnonce), Unwrap(t.input)))

\* C4: a successful decrypt of P always persists the plaintext: renamed to
\* the stripped path when the extension is alp, in place in every other case.
C4_DecryptTransition ==
    \A t \in Tasks :
        (t.kind = "DECRYPT" /\ Succeeded(t) /\ mode = "decrypt")
        => LET e == Extension(t.path)
               stripped == OsPath(host.cwd, WithExtension(t.path, <<>>))
           IN  IF IsSome(e) /\ Unwrap(e) = Alp
               THEN /\ ~Exists(fs, Target(t))
                    /\ Exists(fs, stripped)
                    /\ fs[stripped] = Unwrap(t.buf)
               ELSE /\ Exists(fs, Target(t))
                    /\ fs[Target(t)] = Unwrap(t.buf)
                    /\ DOMAIN fs = DOMAIN fs0

\* The bytes are exactly what encrypt stored for some plaintext under (k, n).
UnmodifiedArtifact(c, k, n) ==
    /\ c[1] = "gz"
    /\ c[3][1] = "ct"
    /\ c = GzipCompress(CipherEncrypt(k, n, c[3][4]))

\* The bytes inflate, and to a ciphertext produced under (k, n).
CarriesCiphertext(c, k, n) ==
    /\ c[1] = "gz"
    /\ c[4] = "crc"
    /\ c[3][1] = "ct"
    /\ c[3] = CipherEncrypt(k, n, c[3][4])

Untouched(t) ==
    /\ t.pc = "panicked"
    /\ t.ops = <<"read">>
    /\ fs = fs0
    /\ Exists(fs, Target(t))
    /\ fs[Target(t)] = Unwrap(t.input)

\* C3 as stated: with a key or nonce other than the one used to encrypt, or
\* with a stored artifact that has been modified, decrypt always fails and
\* neither renames nor writes.
C3_AnyModificationFails ==
    \A t \in Tasks :
        (/\ mode = "decrypt"
         /\ IsSome(t.input)
         /\ ~UnmodifiedArtifact(Unwrap(t.input), Unwrap(t.gkey), Unwrap(t.gnonce)))
        => Untouched(t)

\* C3 (amended): with a key or nonce other than the one used to encrypt, or
\* with an artifact that does not decompress or whose ciphertext has been
\* modified, decrypt always fails, writes no plaintext, and the file is still
\* at its path with its contents.
C3_AuthFailureUntouched ==
    \A t \in Tasks :
        (/\ mode = "decrypt"
         /\ IsSome(t.input)
         /\ ~CarriesCiphertext(Unwrap(t.input), Unwrap(t.gkey), Unwrap(t.gnonce)))
        => Untouched(t)

\* A decrypt of a stored artifact under another nonce has failed.
C3_Witness ==
    \E t \in Tasks :
        /\ mode = "decrypt"
        /\ t.why = "Failed to decrypt"
        /\ Unwrap(t.input)[3][2] = Unwrap(t.gkey)
        /\ Unwrap(t.input)[3][3] # Unwrap(t.gnonce)
        /\ Unwrap(t.input)[3][5] = "tag"

HexChars == {HexLower[i] : i \in 1..16} \cup {HexUpper[i] : i \in 1..16}

ValidHex(s) == Len(s) % 2 = 0 /\ \A i \in 1..Len(s) : s[i] \in HexChars

\* The malformed credentials of the specification: no delimiter, a half that
\* is not hex, a key that is not 16 bytes, a nonce that is not 12 bytes.
MalformedCredential(s) ==
    LET halves == SplitHash(s)
    IN  \/ \A i \in 1..Len(s) : s[i] # "#"
        \/ ~ValidHex(halves[1])
        \/ ~ValidHex(halves[2])
        \/ Len(halves[1]) # 2 * KeyLen
        \/ Len(halves[2]) # 2 * NonceLen

\* C6: a malformed credential makes decrypt fail before the target file is
\* read, renamed or written.
C6_MalformedCredentialRejected ==
    \A t \in Tasks :
        (/\ t.kind = "DECRYPT"
         /\ IsSome(t.key)
         /\ MalformedCredential(Unwrap(t.key))
         /\ t.pc \notin {"pending", "exists", "decode"})
        => /\ t.pc = "panicked"
           /\ t.ops = <<>>
           /\ mode = "decrypt" => fs = fs0

\* A credential whose key half is 15 bytes of valid hex has been rejected
\* for a file that exists.
C6_Witness ==
    \E t \in Tasks :
        /\ t.kind = "DECRYPT"
        /\ t.pc = "panicked"
        /\ t.why = "Failed to initialize cipher"
        /\ MalformedCredential(Unwrap(t.key))
        /\ Exists(fs, Target(t))

(***************************************************************************)
(* Manifest mode: the head of the closure run for every Schematic entry    *)
(* (lines 191-289): the action match, root resolution, and the checks      *)
(* that end the entry before encrypt() or decrypt() is called.             *)
(***************************************************************************)
TokHome == <<"H", "O", "M", "E">>

TokConfig == <<"C", "O", "N", "F", "I", "G">>

TokRoaming == <<"R", "O", "A", "M", "I", "N", "G">>

TokCache == <<"C", "A", "C", "H", "E">>

TokLocal == <<"L", "O", "C", "A", "L">>

TokTemp == <<"T", "E", "M", "P">>

TokTmp == <<"T", "M", "P">>

ActEncrypt == <<"E", "N", "C", "R", "Y", "P", "T">>

ActDecrypt == <<"D", "E", "C", "R", "Y", "P", "T">>

\* Lines 194-229: the effective path of an ENCRYPT entry, or None where the
\* closure returns because the host has no such directory.
ResolveRootEncrypt(root, filepath, h) ==
    IF ~IsSome(root) THEN Some(filepath)
    ELSE LET r == ToUppercase(Unwrap(root))
         IN  CASE r = TokHome ->
                    IF IsSome(h.home) THEN Some(Join(Unwrap(h.home), filepath)) ELSE None
               [] r = TokConfig \/ r = TokRoaming ->
                    IF IsSome(h.config) THEN Some(Join(Unwrap(h.config), filepath)) ELSE None
               [] r = TokCache \/ r = TokLocal ->
                    IF IsSome(h.cache) THEN Some(Join(Unwrap(h.cache), filepath)) ELSE None
               [] r = TokTemp \/ r = TokTmp -> Some(Join(h.temp, filepath))
               [] OTHER -> Some(filepath)

\* A closure that treats an unavailable base directory as fatal.
ClosureHeadRootRequired(t, h) ==
    LET a == ToUppercase(t.action)
        p == ResolveRootEncrypt(t.root, t.filepath, h)
    IN  IF a \notin {ActEncrypt, ActDecrypt}
        THEN [t EXCEPT !.pc = "unknown", !.printed = Some(<<"Unknown action">>)]
        ELSE IF ~IsSome(p) THEN [t EXCEPT !.pc = "panicked", !.why = "root"]
        ELSE IF a = ActEncrypt
        THEN [t EXCEPT !.kind = "ENCRYPT", !.path = Unwrap(p), !.pc = "keygen"]
        ELSE IF ~IsSome(t.key)
        THEN [t EXCEPT !.path = Unwrap(p), !.pc = "skipped", !.why = "nokey"]
        ELSE [t EXCEPT !.kind = "DECRYPT", !.path = Unwrap(p), !.pc = "decode"]

\* A closure that treats a missing credential as fatal.
ClosureHeadKeyRequired(t, h) ==
    LET a == ToUppercase(t.action)
        p == ResolveRootEncrypt(t.root, t.filepath, h)
    IN  IF a \notin {ActEncrypt, ActDecrypt}
        THEN [t EXCEPT !.pc = "unknown", !.printed = Some(<<"Unknown action">>)]
        ELSE IF ~IsSome(p) THEN [t EXCEPT !.pc = "skipped", !.why = "root"]
        ELSE IF a = ActEncrypt
        THEN [t EXCEPT !.kind = "ENCRYPT", !.path = Unwrap(p), !.pc = "keygen"]
        ELSE IF ~IsSome(t.key)
        THEN [t EXCEPT !.path = Unwrap(p), !.pc = "panicked", !.why = "nokey"]
        ELSE [t EXCEPT !.kind = "DECRYPT", !.path = Unwrap(p), !.pc = "decode"]

\* A closure that treats an unrecognized action as fatal.
ClosureHeadActionRequired(t, h) ==
    LET a == ToUppercase(t.action)
        p == ResolveRootEncrypt(t.root, t.filepath, h)
    IN  IF a \notin {ActEncrypt, ActDecrypt}
        THEN [t EXCEPT !.pc = "panicked", !.why = "action"]
        ELSE IF ~IsSome(p) THEN [t EXCEPT !.pc = "skipped", !.why = "root"]
        ELSE IF a = ActEncrypt
        THEN [t EXCEPT !.kind = "ENCRYPT", !.path = Unwrap(p), !.pc = "keygen"]
        ELSE IF ~IsSome(t.key)
        THEN [t EXCEPT !.path = Unwrap(p), !.pc = "skipped", !.why = "nokey"]
        ELSE [t EXCEPT !.kind = "DECRYPT", !.path = Unwrap(p), !.pc = "decode"]

\* A DECRYPT arm that sends ROAMING to the cache directory.
ResolveRootDecryptRoamingCache(root, filepath, h) ==
    IF ~IsSome(root) THEN Some(filepath)
    ELSE LET r == ToUppercase(Unwrap(root))
         IN  CASE r = TokHome ->
                    IF IsSome(h.home) THEN Some(Join(Unwrap(h.home), filepath)) ELSE None
               [] r = TokConfig ->
                    IF IsSome(h.config) THEN Some(Join(Unwrap(h.config), filepath)) ELSE None
               [] r = TokCache \/ r = TokLocal \/ r = TokRoaming ->
                    IF IsSome(h.cache) THEN Some(Join(Unwrap(h.cache), filepath)) ELSE None
               [] r = TokTemp \/ r = TokTmp -> Some(Join(h.temp, filepath))
               [] OTHER -> Some(filepath)

\* Lines 242-277: the same match, written out again in the DECRYPT arm.
ResolveRootDecrypt(root, filepath, h) ==
    IF ~IsSome(root) THEN Some(filepath)
    ELSE LET r == ToUppercase(Unwrap(root))
         IN  CASE r = TokHome ->
                    IF IsSome(h.home) THEN Some(Join(Unwrap(h.home), filepath)) ELSE None
               [] r = TokConfig \/ r = TokRoaming ->
                    IF IsSome(h.config) THEN Some(Join(Unwrap(h.config), filepath)) ELSE None
               [] r = TokCache \/ r = TokLocal ->
                    IF IsSome(h.cache) THEN Some(Join(Unwrap(h.cache), filepath)) ELSE None
               [] r = TokTemp \/ r = TokTmp -> Some(Join(h.temp, filepath))
               [] OTHER -> Some(filepath)

Skip(t, why) == [t EXCEPT !.pc = "skipped", !.why = why]

\* What the closure does with entry t up to the call of encrypt() or
\* decrypt(): lines 192-229 (ENCRYPT), 242-282 (DECRYPT), 287 (other).
ClosureHead(t, h) ==
    LET a == ToUppercase(t.action)
    IN  IF a = ActEncrypt
        THEN LET p == ResolveRootEncrypt(t.root, t.filepath, h)
             IN  IF ~IsSome(p) THEN Skip(t, "root")
                 ELSE [t EXCEPT !.kind = "ENCRYPT", !.path = Unwrap(p), !.pc = "keygen"]
        ELSE IF a = ActDecrypt
        THEN LET p == ResolveRootDecrypt(t.root, t.filepath, h)
             IN  IF ~IsSome(p) THEN Skip(t, "root")
                 ELSE IF ~IsSome(t.key) THEN Skip([t EXCEPT !.path = Unwrap(p)], "nokey")
                 ELSE [t EXCEPT !.kind = "DECRYPT", !.path = Unwrap(p), !.pc = "decode"]
        ELSE [t EXCEPT !.pc = "unknown", !.printed = Some(<<"Unknown action">>)]

Resolve(i) ==
    /\ At(i, "pending")
    /\ tasks' = [tasks EXCEPT ![i] = ClosureHead(tasks[i], host)]
    /\ UNCHANGED <<fs, fs0, host, mode, leaves, prev, nruns>>

(***************************************************************************)
(* Root resolution on its own: every token, in three spellings, on hosts   *)
(* with and without each base directory.                                   *)
(***************************************************************************)
NoFiles == [q \in {} |-> None]

RootTokens ==
    { None } \cup
    { Some(r) : r \in { <<"H", "O", "M", "E">>,
          <<"h", "o", "m", "e">>,
          <<"H", "o", "m", "e">>,
          <<"C", "O", "N", "F", "I", "G">>,
          <<"c", "o", "n", "f", "i", "g">>,
          <<"C", "o", "n", "f", "i", "g">>,
          <<"R", "O", "A", "M", "I", "N", "G">>,
          <<"r", "o", "a", "m", "i", "n", "g">>,
          <<"R", "o", "a", "m", "i", "n", "g">>,
          <<"C", "A", "C", "H", "E">>,
          <<"c", "a", "c", "h", "e">>,
          <<"C", "a", "c", "h", "e">>,
          <<"L", "O", "C", "A", "L">>,
          <<"l", "o", "c", "a", "l">>,
          <<"L", "o", "c", "a", "l">>,
          <<"T", "E", "M", "P">>,
          <<"t", "e", "m", "p">>,
          <<"T", "e", "m", "p">>,
          <<"T", "M", "P">>,
          <<"t", "m", "p">>,
          <<"T", "m", "p">>,
          <<"D", "E", "S", "K">>,
          <<"H", "O", "M", "E", "S">>,
          <<>> } }

RootActions == { ActEncrypt, ActDecrypt, <<"e", "n", "c", "r", "y", "p", "t">>, <<"D", "e", "c", "r", "y", "p", "t">> }

RootFilepaths ==
    { <<<<"x", ".", "t">>>>, <<<<"v">>, <<"f", ".", "m">>>>, <<RootDir, <<"a">>, <<"x">>>> }

RootHosts ==
    { Host(hm, cf, ch, 1) : hm \in {None, Some(HomeDir)}, cf \in {None, Some(ConfigDir)},
                            ch \in {None, Some(CacheDir)} }

InitRoot ==
    /\ fs = NoFiles
    /\ fs0 = fs
    /\ host \in RootHosts
    /\ mode = "root"
    /\ tasks = <<>>
    /\ leaves = {}
    /\ prev = None
    /\ nruns = 0

RootSupply ==
    /\ mode = "root"
    /\ tasks = <<>>
    /\ \E a \in RootActions, r \in RootTokens, f \in RootFilepaths :
          tasks' = <<NewTask(a, r, Some(EncodeCredential(KeyOf(1), NonceOf(1))), f,
                             "", "pending")>>
    /\ UNCHANGED <<fs, fs0, host, mode, leaves, prev, nruns>>

NextRoot ==
    \/ RootSupply
    \/ Resolve(1)

SpecRoot == InitRoot /\ [][NextRoot]_vars

LowerOf == [c \in {UpperChars[i] : i \in 1..26} |->
               LowerChars[CHOOSE i \in 1..26 : UpperChars[i] = c]]

LowerChar(c) == IF c \in DOMAIN LowerOf THEN LowerOf[c] ELSE c

Folded(s) == [i \in 1..Len(s) |-> LowerChar(s[i])]

\* The table of the specification: the base directory a root token names on
\* host h, <<"as-is">> for an absent or unrecognized token.
StatedBase(root, h) ==
    IF ~IsSome(root) THEN <<"as-is">>
    ELSE LET r == Folded(Unwrap(root))
         IN  IF r = Folded(TokHome) THEN <<"base", h.home>>
             ELSE IF r \in {Folded(TokConfig), Folded(TokRoaming)} THEN <<"base", h.config>>
             ELSE IF r \in {Folded(TokCache), Folded(TokLocal)} THEN <<"base", h.cache>>
             ELSE IF r \in {Folded(TokTemp), Folded(TokTmp)} THEN <<"base", Some(h.temp)>>
             ELSE <<"as-is">>

WorkingDirs == {Cwd, TempDir, HomeDir}

\* C8: for ENCRYPT and DECRYPT entries alike, a relative filepath under a
\* root token (in any letter case) whose base directory the host supplies is
\* processed at base/filepath whatever the working directory; with no root or
\* an unrecognized one the filepath is used as it is.
C8_RootResolution ==
    \A t \in Tasks :
        (/\ t.pc # "pending"
         /\ Folded(t.action) \in {Folded(ActEncrypt), Folded(ActDecrypt)}
         /\ ~IsAbsolute(t.filepath))
        => LET b == StatedBase(t.root, host)
           IN  IF b[1] = "as-is"
               THEN t.why # "root" /\ t.path = t.filepath
               ELSE IsSome(b[2])
                    => /\ t.why # "root"
                       /\ t.path = Unwrap(b[2]) \o t.filepath
                       /\ \A d \in WorkingDirs :
                              OsPath(d, t.path) = Unwrap(b[2]) \o t.filepath

\* A decrypt entry with root "roaming" was resolved into the configuration
\* directory.
C8_Witness ==
    \E t \in Tasks :
        /\ t.kind = "DECRYPT"
        /\ t.root = Some(<<"r", "o", "a", "m", "i", "n", "g">>)
        /\ t.path = ConfigDir \o <<<<"x", ".", "t">>>>

(***************************************************************************)
(* The credential on its own: the string encrypt prints for a key and a    *)
(* nonce, handed (as printed, or damaged) to the head of decrypt.          *)
(***************************************************************************)
CredSeeds == 1..NumCredSeeds

InitCred ==
    /\ fs = NoFiles
    /\ fs0 = fs
    /\ host = Host(Some(HomeDir), Some(ConfigDir), Some(CacheDir), 1)
    /\ mode = "cred"
    /\ tasks = <<>>
    /\ leaves = {}
    /\ prev = None
    /\ nruns = 0

\* Lines 168-172: key material is drawn and the credential printed.
CredPrint ==
    /\ mode = "cred"
    /\ tasks = <<>>
    /\ \E a \in CredSeeds, b \in CredSeeds :
          tasks' = <<[NewTask(<<>>, None, None, <<<<"x">>>>, "ENCRYPT", "done")
                        EXCEPT !.gkey = Some(KeyOf(a)), !.gnonce = Some(NonceOf(b)),
                               !.printed = Some(EncodeCredential(KeyOf(a), NonceOf(b)))]>>
    /\ UNCHANGED <<fs, fs0, host, mode, leaves, prev, nruns>>

\* Line 174: a credential string arrives as the -k argument of decrypt.
CredSupply ==
    /\ mode = "cred"
    /\ Len(tasks) = 1
    /\ \E c \in CredVariants(Unwrap(tasks[1].gkey), Unwrap(tasks[1].gnonce)) :
          tasks' = Append(tasks, NewTask(<<>>, None, Some(c), <<<<"x">>>>, "DECRYPT", "decode"))
    /\ UNCHANGED <<fs, fs0, host, mode, leaves, prev, nruns>>

NextCred ==
    \/ CredPrint
    \/ CredSupply
    \/ Decode(2)

SpecCred == InitCred /\ [][NextCred]_vars

\* C7: decoding the credential printed for (k, n) yields exactly (k, n).
C7_CredentialRoundTrip ==
    (/\ mode = "cred"
     /\ Len(tasks) = 2
     /\ tasks[2].pc # "decode"
     /\ tasks[2].key = tasks[1].printed)
    => /\ tasks[2].pc = "read"
       /\ tasks[2].gkey = tasks[1].gkey
       /\ tasks[2].gnonce = tasks[1].gnonce

\* The printed credential of a key holding a byte below 16 (a leading zero
\* digit) has been decoded.
C7_Witness ==
    /\ mode = "cred"
    /\ Len(tasks) = 2
    /\ tasks[2].pc = "read"
    /\ tasks[2].key = tasks[1].printed
    /\ \E i \in 1..KeyLen : Unwrap(tasks[1].gkey)[i] < 16

(***************************************************************************)
(* Manifest mode: schematics.par_iter().for_each(closure) on a rayon pool  *)
(* of host.threads workers.  rayon halves the entry list recursively; a    *)
(* node is split while it holds two entries or more and its splitter       *)
(* allows it (Splitter::try_split: a migrated job resets the counter to    *)
(* the thread count, any other job halves it and stops at zero).  The      *)
(* entries of an unsplit node, a leaf, are folded in order by one worker.  *)
(* Both halves of the first split run as injected jobs (the caller is not  *)
(* a pool thread); below it the second half is migrated when another       *)
(* worker stole it, or when it is run while the first half unwinds.        *)
(***************************************************************************)
RECURSIVE LeafSets(_, _, _, _, _, _)
LeafSets(lo, len, splits, migrated, top, threads) ==
    LET halves(s) ==
            LET mid == len \div 2
            IN  { a \cup b :
                    a \in LeafSets(lo, mid, s, top, FALSE, threads),
                    b \in UNION { LeafSets(lo + mid, len - mid, s, m, FALSE, threads) :
                                    m \in IF top THEN {TRUE} ELSE {TRUE, FALSE} } }
    IN  IF len \div 2 < 1 THEN {{<<lo, len>>}}
        ELSE IF migrated THEN halves(Max(threads, splits \div 2))
        ELSE IF splits > 0 THEN halves(splits \div 2)
        ELSE {{<<lo, len>>}}

\* bridge_producer_consumer: the splitter starts at the thread count.
Splits(n, threads) == LeafSets(1, n, threads, FALSE, TRUE, threads)

LeafOf(i) == CHOOSE l \in leaves : l[1] <= i /\ i < l[1] + l[2]

Entries(l) == l[1]..(l[1] + l[2] - 1)

Terminal(t) == t.pc \in {"done", "skipped", "unknown", "panicked"}

\* A leaf is over when its fold ran through its entries or unwound.
LeafOver(l) ==
    \/ \A i \in Entries(l) : Terminal(tasks[i])
    \/ \E i \in Entries(l) : tasks[i].pc = "panicked"

LeafStarted(l) == \E i \in Entries(l) : tasks[i].pc # "pending"

Running == {l \in leaves : LeafStarted(l) /\ ~LeafOver(l)}

\* Entry i is the next of its leaf's fold, and a worker is there to run it.
\* A pool of one worker runs the first half of every split before the
\* second (it pops its own deque); with more workers halves are stolen.
CanStart(i) ==
    LET l == LeafOf(i)
    IN  /\ \A j \in Entries(l) : j < i => tasks[j].pc \in {"done", "skipped", "unknown"}
        /\ i = l[1] => Cardinality(Running) < host.threads
        /\ (i = l[1] /\ host.threads = 1)
               => \A o \in leaves : o[1] < l[1] => LeafOver(o)

\* The nonces an entry of a batch may draw.
BatchNonces == {NonceOf(1)}

\* The closure runs from its head to the first file operation of encrypt()
\* or decrypt(): lines 192-231 and 99, or 242-284 and 122-127.
Start(i) ==
    /\ mode = "batch"
    /\ At(i, "pending")
    /\ CanStart(i)
    /\ LET t1 == ClosureHead(tasks[i], host)
       IN  IF t1.pc = "keygen"
           THEN \E k \in GenKeys, n \in BatchNonces :
                    tasks' = [tasks EXCEPT ![i] = WithKeys(t1, k, n)]
           ELSE tasks' = [tasks EXCEPT ![i] =
                    IF t1.pc = "decode" THEN Decoded(t1) ELSE t1]
    /\ UNCHANGED <<fs, fs0, host, mode, leaves, prev, nruns>>

BatchReturn ==
    /\ mode = "batch"
    /\ \A l \in leaves : LeafOver(l)
    /\ mode' = IF \E t \in Tasks : t.pc = "panicked" THEN "aborted" ELSE "returned"
    /\ UNCHANGED <<fs, fs0, host, tasks, leaves, prev, nruns>>

(***************************************************************************)
(* The manifests explored.                                                 *)
(***************************************************************************)
Entry(action, root, key, filepath) ==
    [action |-> action, root |-> root, key |-> key, filepath |-> filepath]

Cred11 == EncodeCredential(KeyOf(1), NonceOf(1))

Artifact(b) == GzipCompress(CipherEncrypt(KeyOf(1), NonceOf(1), Raw(b)))

NameRc == <<"r", ".", "c">>

NameSalp == <<"s", ".", "a", "l", "p">>

NameUalp == <<"u", ".", "a", "l", "p">>

\* Two encrypts of the same file under two spellings, a decrypt that can
\* succeed, a decrypt with a credential that has no delimiter, a decrypt
\* with no credential, three entries under roots the host cannot supply, an
\* unknown action, and an encrypt of a file that does not exist.
EncTemp == Entry(ActEncrypt, Some(<<"t", "e", "m", "p">>), None, <<NameRc>>)

EncAbs == Entry(<<"e", "n", "c", "r", "y", "p", "t">>, None, None, TempDir \o <<NameRc>>)

DecGood == Entry(ActDecrypt, Some(TokTmp), Some(Cred11), <<NameSalp>>)

DecMalformed ==
    Entry(ActDecrypt, Some(TokTemp),
          Some(HexEncode(KeyOf(1)) \o HexEncode(NonceOf(1))), <<NameUalp>>)

DecNoKey == Entry(<<"D", "e", "c", "r", "y", "p", "t">>, Some(TokTemp), None, <<NameUalp>>)

EncNoHome == Entry(ActEncrypt, Some(TokHome), None, <<NameRc>>)

DecNoRoaming ==
    Entry(ActDecrypt, Some(<<"R", "o", "a", "m", "i", "n", "g">>), Some(Cred11), <<NameUalp>>)

EncNoCache == Entry(ActEncrypt, Some(<<"c", "a", "c", "h", "e">>), None, <<NameRc>>)

Unknown == Entry(<<"F", "O", "O">>, None, None, <<NameRc>>)

EncMissing == Entry(ActEncrypt, Some(TokTemp), None, <<MissingName>>)

\* An encrypt of the extensionless file `s`, whose new path `s.alp` is the
\* file DecGood decrypts, and whose own path is where DecGood writes.
NameS == <<"s">>

EncS == Entry(ActEncrypt, Some(TokTemp), None, <<NameS>>)

ShortEntries == {EncTemp, EncAbs, DecGood, DecMalformed}

\* Manifests of up to MaxEntries distinct entries.
ShortManifests ==
    UNION { { m \in [1..n -> ShortEntries] : \A i, j \in 1..n : i # j => m[i] # m[j] } :
            n \in 1..MaxEntries }

\* Manifests of LongLen entries: one entry that fails or is skipped, one
\* decrypt that can succeed, unknown actions elsewhere.
LongLen == 9

LongManifests ==
    { [i \in 1..LongLen |-> IF i = k THEN x ELSE IF i = v THEN DecGood ELSE Unknown] :
        k \in 1..LongLen, v \in 1..LongLen,
        x \in {DecMalformed, DecNoKey, EncNoHome, DecNoRoaming, EncNoCache,
                EncMissing, Unknown} }

\* Manifests of two entries with distinct paths, one of which is the other's
\* destination; they run in a directory that holds both files.
OverlapManifests == { <<EncS, DecGood>>, <<DecGood, EncS>> }

BatchFiles ==
    (TempDir \o <<NameRc>> :> Raw(1)) @@
    (TempDir \o <<NameSalp>> :> Artifact(2)) @@
    (TempDir \o <<NameUalp>> :> Artifact(1))

OverlapFiles == BatchFiles @@ (TempDir \o <<NameS>> :> Raw(1))

InitBatch ==
    /\ \E n \in 1..MaxThreads, m \in ShortManifests \cup LongManifests \cup OverlapManifests :
          /\ Len(m) > MaxEntries => n = 1
          /\ fs = IF m \in OverlapManifests THEN OverlapFiles ELSE BatchFiles
          /\ fs0 = fs
          /\ host = Host(None, None, None, n)
          /\ tasks = [i \in 1..Len(m) |->
                         NewTask(m[i].action, m[i].root, m[i].key, m[i].filepath,
                                 "", "pending")]
          /\ leaves \in Splits(Len(m), n)
    /\ mode = "batch"
    /\ prev = None
    /\ nruns = 0

NextBatch ==
    \/ \E i \in 1..Len(tasks) :
          \/ Start(i)
          \/ EncryptRead(i)
          \/ DecryptRead(i)
          \/ Rename(i)
          \/ Write(i)
          \/ PrintDone(i)
    \/ BatchReturn

SpecBatch == InitBatch /\ [][NextBatch]_vars

(***************************************************************************)
(* Claims about manifest mode.                                             *)
(***************************************************************************)
BatchOver == mode \in {"returned", "aborted"}

Written(t) ==
    /\ Succeeded(t)
    /\ \E n \in 1..Len(t.ops) : t.ops[n] = "write"

\* Entry i, run on its own on the files the batch started with, would be
\* carried through to its write.
CanSucceed(i) ==
    LET h == ClosureHead(tasks[i], host)
        p == OsPath(host.cwd, h.path)
    IN  IF h.pc = "keygen" THEN Exists(fs0, p)
        ELSE IF h.pc = "decode"
        THEN LET c == DecodeCredential(Unwrap(h.key))
             IN  /\ c.ok
                 /\ Exists(fs0, p)
                 /\ LET unz == GzipDecompress(fs0[p])
                    IN  /\ unz.ok
                        /\ CipherDecrypt(c.val.key, c.val.nonce, unz.val).ok
                 /\ DecryptTransition(h.path).pc # "print"
        ELSE FALSE

\* No other entry of the manifest works on the file of entry i.
OwnFile(i) ==
    \A j \in 1..Len(tasks) :
        j # i => LET hi == ClosureHead(tasks[i], host)
                     hj == ClosureHead(tasks[j], host)
                 IN  hj.pc \in {"keygen", "decode"}
                        => OsPath(host.cwd, hj.path) # OsPath(host.cwd, hi.path)

\* C2: batch isolation.  When the batch is over, every entry whose own
\* operation can succeed (and whose file no other entry works on) has
\* reached Written, whatever failed or was skipped elsewhere in the manifest.
C2_BatchIsolation ==
    BatchOver => \A i \in 1..Len(tasks) : (CanSucceed(i) /\ OwnFile(i)) => Written(tasks[i])

\* The entries after entry i in its leaf were not kept from running by i:
\* when the batch is over, one of them is still pending only behind a panic.
NotStoppedBy(i) ==
    BatchOver =>
        \A j \in Entries(LeafOf(i)) :
            (j > i /\ tasks[j].pc = "pending")
                => \E q \in Entries(LeafOf(i)) : q < j /\ tasks[q].pc = "panicked"

\* The entry names a root whose base directory the host does not supply.
RootUnavailable(t) ==
    /\ Folded(t.action) \in {Folded(ActEncrypt), Folded(ActDecrypt)}
    /\ LET b == StatedBase(t.root, host)
       IN  b[1] = "base" /\ ~IsSome(b[2])

\* C9: an entry under a root (HOME, CONFIG/ROAMING, CACHE/LOCAL) whose base
\* directory the host cannot supply ends as skipped, with no key material
\* generated or decoded and no file read, renamed or written, and the
\* entries that follow it are still processed.
C9_UnresolvableRootSkipped ==
    \A i \in 1..Len(tasks) :
        (RootUnavailable(tasks[i]) /\ tasks[i].pc # "pending")
            => /\ tasks[i].pc = "skipped"
               /\ tasks[i].why = "root"
               /\ tasks[i].gkey = None
               /\ tasks[i].gnonce = None
               /\ tasks[i].ops = <<>>
               /\ NotStoppedBy(i)

\* A decrypt under root "Roaming" was skipped on a host without a
\* configuration directory, and the entry folded after it by the same
\* worker was decrypted and written.
C9_Witness ==
    /\ mode = "returned"
    /\ \E i \in 1..Len(tasks) :
          /\ tasks[i].action = ActDecrypt
          /\ tasks[i].root = Some(<<"R", "o", "a", "m", "i", "n", "g">>)
          /\ tasks[i].pc = "skipped"
          /\ i + 1 \in Entries(LeafOf(i))
          /\ Written(tasks[i + 1])

\* The entry is a DECRYPT with no credential under a root that resolves.
NoCredential(t) ==
    /\ Folded(t.action) = Folded(ActDecrypt)
    /\ ~IsSome(t.key)
    /\ ~RootUnavailable(t)

\* C10: a DECRYPT entry with no credential is skipped, not failed: its step
\* ends it without a panic, changes no file and no other entry, it reads,
\* renames and writes nothing, and the entries after it are still processed.
C10_NoCredentialSkipped ==
    /\ [](\A i \in 1..Len(tasks) :
             (NoCredential(tasks[i]) /\ tasks[i].pc # "pending")
                 => /\ tasks[i].pc = "skipped"
                    /\ tasks[i].why = "nokey"
                    /\ tasks[i].ops = <<>>
                    /\ tasks[i].buf = None
                    /\ NotStoppedBy(i))
    /\ [][\A i \in 1..Len(tasks) :
             (NoCredential(tasks[i]) /\ tasks[i].pc = "pending" /\ tasks'[i].pc # "pending")
                 => /\ fs' = fs
                    /\ \A j \in 1..Len(tasks) : j # i => tasks'[j] = tasks[j]]_vars

\* A decrypt without credential was skipped, its file is as it was, and the
\* entry folded after it by the same worker was decrypted and written.
C10_Witness ==
    /\ BatchOver
    /\ \E i \in 1..Len(tasks) :
          /\ tasks[i].key = None
          /\ tasks[i].why = "nokey"
          /\ fs[OsPath(host.cwd, tasks[i].path)] = fs0[OsPath(host.cwd, tasks[i].path)]
          /\ i + 1 \in Entries(LeafOf(i))
          /\ Written(tasks[i + 1])
          /\ fs # fs0

\* The action of the entry is neither ENCRYPT nor DECRYPT in any letter case.
Unrecognized(t) == Folded(t.action) \notin {Folded(ActEncrypt), Folded(ActDecrypt)}

UnknownActionReport == Some(<<"Unknown action">>)

\* C11: an entry whose action is neither ENCRYPT nor DECRYPT in any letter
\* case is reported as unrecognized and nothing else: it does not panic, it
\* draws no key, reads, renames and writes nothing, its step leaves every
\* file and every other entry as they were, and the entries after it are
\* still processed.
C11_UnknownActionReported ==
    /\ [](\A i \in 1..Len(tasks) :
             (Unrecognized(tasks[i]) /\ tasks[i].pc # "pending")
                 => /\ tasks[i].pc = "unknown"
                    /\ tasks[i].printed = UnknownActionReport
                    /\ tasks[i].gkey = None
                    /\ tasks[i].ops = <<>>
                    /\ NotStoppedBy(i))
    /\ [](\A i \in 1..Len(tasks) :
             (~Unrecognized(tasks[i])) => tasks[i].printed # UnknownActionReport)
    /\ [][\A i \in 1..Len(tasks) :
             (Unrecognized(tasks[i]) /\ tasks[i].pc = "pending" /\ tasks'[i].pc # "pending")
                 => /\ fs' = fs
                    /\ \A j \in 1..Len(tasks) : j # i => tasks'[j] = tasks[j]]_vars

\* An entry with action FOO was reported, the entry folded after it by the
\* same worker was decrypted and written, and the batch returned normally.
C11_Witness ==
    /\ mode = "returned"
    /\ \E i \in 1..Len(tasks) :
          /\ tasks[i].action = <<"F", "O", "O">>
          /\ tasks[i].pc = "unknown"
          /\ i + 1 \in Entries(LeafOf(i))
          /\ Written(tasks[i + 1])

(***************************************************************************)
(* Single-file mode: the precondition.                                     *)
(***************************************************************************)
SingleMode == mode \in {"encrypt", "decrypt"}

\* C12: in single-file mode, when the target file does not exist the run
\* aborts before any work begins: it panics on the precondition, no key or
\* nonce is generated or decoded, nothing is printed, no file operation is
\* attempted and the stored files are what they were when the run started.
C12_MissingTargetAborts ==
    \A i \in 1..Len(tasks) :
        (SingleMode /\ ~Exists(fs0, Target(tasks[i])) /\ tasks[i].pc # "exists")
            => /\ tasks[i].pc = "panicked"
               /\ tasks[i].why = "Specified file does not exist."
               /\ tasks[i].gkey = None
               /\ tasks[i].gnonce = None
               /\ tasks[i].printed = None
               /\ tasks[i].ops = <<>>
               /\ tasks[i].input = None
               /\ fs = fs0

\* A decrypt with a well-formed credential was started on a file that is not
\* there (other files are), and has aborted.
C12_Witness ==
    /\ mode = "decrypt"
    /\ tasks[1].pc = "panicked"
    /\ ~Exists(fs, Target(tasks[1]))
    /\ DecodeCredential(Unwrap(tasks[1].key)).ok
    /\ DOMAIN fs # {}

AllTerminal == \A i \in 1..Len(tasks) : Terminal(tasks[i])

\* An entry behind a panic in its leaf: the fold that would run it is gone.
Abandoned(j) ==
    /\ tasks[j].pc = "pending"
    /\ \E q \in Entries(LeafOf(j)) : q < j /\ tasks[q].pc = "panicked"

\* C13: completion barrier.  Every entry of a dispatched manifest reaches a
\* terminal state (written, skipped, reported or failed): none is left where
\* no step will ever run it, and the batch is over only when every entry
\* has reached one.
C13_CompletionBarrier ==
    /\ \A j \in 1..Len(tasks) : ~Abandoned(j)
    /\ BatchOver => AllTerminal

(***************************************************************************)
(* Entries against one another.                                            *)
(***************************************************************************)
\* The entry gets as far as encrypt() or decrypt().
Works(t) == ClosureHead(t, host).pc \in {"keygen", "decode"}

SourcePath(t) == OsPath(host.cwd, ClosureHead(t, host).path)

\* Where the transition of the specification puts the result: P.alp for an
\* encrypt, P without `.alp` for a decrypt (P itself where no rename is made).
DestinationPath(t) ==
    LET p == ClosureHead(t, host).path
    IN  IF ClosureHead(t, host).pc = "keygen" THEN OsPath(host.cwd, EncryptNewPath(p))
        ELSE LET tr == DecryptTransition(p)
             IN  IF IsSome(tr.newpath) THEN OsPath(host.cwd, Unwrap(tr.newpath))
                 ELSE OsPath(host.cwd, p)

\* The outcome and the files of entry t run on its own on the files f, with
\* the key material t drew or was given.
Alone(t, f) ==
    LET p == SourcePath(t)
        d == DestinationPath(t)
    IN  IF ~Works(t) THEN [pc |-> ClosureHead(t, host).pc, fs |-> f]
        ELSE IF ClosureHead(t, host).pc = "keygen"
        THEN IF ~Exists(f, p) THEN [pc |-> "panicked", fs |-> f]
             ELSE [pc |-> "done",
                   fs |-> FsWrite(FsRename(f, p, d), d,
                              GzipCompress(CipherEncrypt(Unwrap(t.gkey), Unwrap(t.gnonce), f[p])))]
        ELSE LET c == DecodeCredential(Unwrap(t.key))
             IN  IF ~c.ok \/ ~Exists(f, p) THEN [pc |-> "panicked", fs |-> f]
                 ELSE LET unz == GzipDecompress(f[p])
                      IN  IF ~unz.ok THEN [pc |-> "panicked", fs |-> f]
                          ELSE LET plain == CipherDecrypt(c.val.key, c.val.nonce, unz.val)
                               IN  IF ~plain.ok THEN [pc |-> "panicked", fs |-> f]
                                   ELSE IF d = p /\ DecryptTransition(ClosureHead(t, host).path).pc = "print"
                                   THEN [pc |-> "done", fs |-> f]
                                   ELSE [pc |-> "done",
                                         fs |-> FsWrite(FsRename(f, p, d), d, plain.val)]

Touched(t) == IF Works(t) THEN {SourcePath(t), DestinationPath(t)} ELSE {}

Ran(i) == tasks[i].pc # "pending"

\* The batch is over, every entry that was run ended as it ends on its own
\* on the files the batch started with, its files are what it leaves on its
\* own, and the files of no entry are what they were: the result of running
\* the entries one at a time, in whatever order.
AsOneAtATime ==
    /\ \A i \in 1..Len(tasks) :
          Ran(i) => LET a == Alone(tasks[i], fs0)
                    IN  /\ tasks[i].pc = a.pc
                        /\ \A q \in Touched(tasks[i]) :
                              /\ Exists(fs, q) <=> Exists(a.fs, q)
                              /\ Exists(fs, q) => fs[q] = a.fs[q]
    /\ \A q \in DOMAIN fs \cup DOMAIN fs0 :
          (\A i \in 1..Len(tasks) : Ran(i) => q \notin Touched(tasks[i]))
              => Exists(fs, q) /\ Exists(fs0, q) /\ fs[q] = fs0[q]

DistinctPaths ==
    \A i, j \in 1..Len(tasks) :
        (i # j /\ Works(tasks[i]) /\ Works(tasks[j]))
            => SourcePath(tasks[i]) # SourcePath(tasks[j])

DisjointFiles ==
    \A i, j \in 1..Len(tasks) :
        i # j => Touched(tasks[i]) \cap Touched(tasks[j]) = {}

HasOp(t, op) == \E n \in 1..Len(t.ops) : t.ops[n] = op

WriteFailed(t) == t.pc = "panicked" /\ t.why = "Failed to write data"

\* Every file but those at the paths in S is as it was when the run started.
OthersAsBefore(S) ==
    \A q \in (DOMAIN fs \cup DOMAIN fs0) \ S :
        Exists(fs, q) /\ Exists(fs0, q) /\ fs[q] = fs0[q]

\* The file is at the new path, holding one of the contents in C, and
\* nothing is at the old path.
RenamedHolding(t, C) ==
    LET new == OsPath(host.cwd, Unwrap(t.newpath))
    IN  /\ ~Exists(fs, Target(t))
        /\ Exists(fs, new)
        /\ fs[new] \in C
        /\ OthersAsBefore({Target(t), new})

\* The file is at its path, not renamed, holding one of the contents in C.
InPlaceHolding(t, C) ==
    /\ Exists(fs, Target(t))
    /\ fs[Target(t)] \in C
    /\ OthersAsBefore({Target(t)})

\* Reading, cipher and codec work is over before the first change to a file.
WorkBeforeMutation(t) ==
    (fs # fs0 \/ HasOp(t, "rename") \/ HasOp(t, "write"))
        => /\ Len(t.ops) >= 1 /\ t.ops[1] = "read"
           /\ IsSome(t.input)
           /\ t.pc = "panicked" \/ IsSome(t.buf)

\* C15 as stated: in the encrypt and the decrypt transition all reading,
\* cipher and codec work is over before the first change to a file, the
\* rename comes before the write, a failure up to and including the rename
\* leaves every file as it was, and the only failure that leaves a change is
\* a write failure after a successful rename: the file is at the new path
\* with its old content or empty, and nothing is at the old path.
C15_RenameThenWrite ==
    \A t \in Tasks :
        /\ WorkBeforeMutation(t)
        /\ HasOp(t, "write") => (Len(t.ops) = 3 /\ t.ops[2] = "rename" /\ t.ops[3] = "write")
        /\ t.pc = "panicked"
              => IF WriteFailed(t)
                 THEN RenamedHolding(t, {fs0[Target(t)], EmptyFile})
                 ELSE fs = fs0

\* A decrypt of a file with no extension: it is written where it is.
InPlace(t) == t.kind = "DECRYPT" /\ ~IsSome(Extension(t.path))

\* C15 amended: the same, except that a decrypt of a file with no extension
\* makes no rename and writes in place, and that a failed write may also
\* leave part of the new content: a write failure leaves the file at the
\* new path (at its own path for the in-place decrypt) with its old content,
\* empty or incomplete.
C15_RenameThenWriteOrInPlace ==
    \A t \in Tasks :
        /\ WorkBeforeMutation(t)
        /\ HasOp(t, "write")
              => IF InPlace(t) THEN t.ops = <<"read", "write">>
                 ELSE t.ops = <<"read", "rename", "write">>
        /\ HasOp(t, "rename") => ~InPlace(t)
        /\ t.pc = "panicked"
              => IF WriteFailed(t)
                 THEN LET C == {fs0[Target(t)], EmptyFile, PartOf(Unwrap(t.buf))}
                      IN  IF InPlace(t) THEN InPlaceHolding(t, C)
                          ELSE RenamedHolding(t, C)
                 ELSE fs = fs0

\* The write of a decrypt failed after the rename of `s.alp` to `s` and left
\* part of the plaintext there.
C15_Witness ==
    \E t \in Tasks :
        /\ t.kind = "DECRYPT"
        /\ WriteFailed(t)
        /\ t.ops = <<"read", "rename", "write">>
        /\ ~Exists(fs, Target(t))
        /\ fs[OsPath(host.cwd, Unwrap(t.newpath))] = PartOf(Raw(2))

\* A file was at the destination of the run of t when the run started.
DestinationTaken(t) ==
    /\ IsSome(t.newpath)
    /\ Unwrap(t.newpath) # t.path
    /\ Exists(fs0, OsPath(host.cwd, Unwrap(t.newpath)))

\* C16: destination collision.  When a file already exists at the computed
\* destination (P.alp for encrypt, P without `.alp` for decrypt), the run
\* fails at its rename and the file that was at the destination is as it was.
C16_DestinationCollisionFails ==
    \A t \in Tasks :
        (DestinationTaken(t) /\ HasOp(t, "rename"))
            => /\ t.pc = "panicked"
               /\ t.why = "Failed to rename a file"
               /\ fs[OsPath(host.cwd, Unwrap(t.newpath))] = fs0[OsPath(host.cwd, Unwrap(t.newpath))]

(***************************************************************************)
(* Encrypting what is already encrypted.                                   *)
(***************************************************************************)
\* The bytes inflate to a ciphertext with a valid tag.
IsArtifact(c) ==
    /\ c[1] = "gz" /\ c[4] = "crc"
    /\ c[3][1] = "ct" /\ c[3][5] = "tag"

Inner(c) == c[3][4]

LayerKey(c) == [key |-> c[3][2], nonce |-> c[3][3]]

TwoLayers(c) == IsArtifact(c) /\ IsArtifact(Inner(c))

EndsInAlp(p) == Extension(p) = Some(Alp)

AppendAlp(p) == [p EXCEPT ![Len(p)] = @ \o <<".">> \o Alp]

\* C17: encrypt is not idempotent.  A successful encrypt of the already
\* encrypted file P.alp leaves nothing at P.alp and a file at P.alp.alp that
\* is the encryption of the first artifact (two layers); a decrypt of two
\* layers succeeds only with the credential of the second encrypt and gives
\* back the first artifact, not the original, at P.alp; and any decrypt
\* that succeeds takes off one layer, under the credential of that layer.
C17_EncryptNotIdempotent ==
    \A t \in Tasks :
        /\ (mode = "encrypt" /\ Succeeded(t) /\ EndsInAlp(t.path) /\ IsArtifact(Unwrap(t.input)))
              => /\ t.newpath = Some(AppendAlp(t.path))
                 /\ EndsInAlp(WithExtension(Unwrap(t.newpath), <<>>))
                 /\ t.ops = <<"read", "rename", "write">>
                 /\ ~Exists(fs, Target(t))
                 /\ fs[OsPath(host.cwd, Unwrap(t.newpath))]
                        = GzipCompress(CipherEncrypt(Unwrap(t.gkey), Unwrap(t.gnonce),
                                                     Unwrap(t.input)))
                 /\ TwoLayers(fs[OsPath(host.cwd, Unwrap(t.newpath))])
        /\ (mode = "decrypt" /\ Succeeded(t) /\ TwoLayers(Unwrap(t.input)))
              => /\ DecodeCredential(Unwrap(t.key)).val = LayerKey(Unwrap(t.input))
                 /\ t.buf = Some(Inner(Unwrap(t.input)))
                 /\ IsArtifact(Unwrap(t.buf))
                 /\ (EndsInAlp(t.path) /\ t.pc = "done")
                       => /\ fs[OsPath(host.cwd, WithExtension(t.path, <<>>))] = Unwrap(t.buf)
                          /\ ~Exists(fs, Target(t))
        /\ (mode = "decrypt" /\ Succeeded(t))
              => /\ IsArtifact(Unwrap(t.input))
                 /\ DecodeCredential(Unwrap(t.key)).val = LayerKey(Unwrap(t.input))
                 /\ t.buf = Some(Inner(Unwrap(t.input)))

\* `r.c` was encrypted twice, and the decrypt of `r.c.alp.alp` with the
\* second credential has put the first artifact back at `r.c.alp`.
C17_Witness ==
    /\ mode = "decrypt"
    /\ tasks[1].pc = "done"
    /\ tasks[1].path = <<<<"r", ".", "c", ".", "a", "l", "p", ".", "a", "l", "p">>>>
    /\ TwoLayers(Unwrap(tasks[1].input))
    /\ LET c == fs[OsPath(host.cwd, <<<<"r", ".", "c", ".", "a", "l", "p">>>>)]
       IN  IsArtifact(c) /\ Inner(c)[1] = "raw"

(***************************************************************************)
(* Two ENCRYPT entries on one file.                                        *)
(***************************************************************************)
\* Entries i and j are two encrypts of the same file, which is there when
\* the batch starts.
SameFileEncrypts(i, j) ==
    /\ i # j
    /\ LET hi == ClosureHead(tasks[i], host)
           hj == ClosureHead(tasks[j], host)
       IN  /\ hi.pc = "keygen"
           /\ hj.pc = "keygen"
           /\ OsPath(host.cwd, hi.path) = OsPath(host.cwd, hj.path)
           /\ Exists(fs0, OsPath(host.cwd, hi.path))

\* Entry w renamed the file and wrote its ciphertext; entry l failed at its
\* read or at its rename and wrote nothing; the file at P.alp is the
\* original contents encrypted once, under the key of w.
WonBy(w, l) ==
    LET p == SourcePath(tasks[w])
        d == DestinationPath(tasks[w])
    IN  /\ tasks[w].pc = "done"
        /\ tasks[w].ops = <<"read", "rename", "write">>
        /\ tasks[l].pc = "panicked"
        /\ tasks[l].ops \in {<<"read">>, <<"read", "rename">>}
        /\ tasks[l].why \in {"Error reading input file", "Failed to rename a file"}
        /\ ~Exists(fs, p)
        /\ Exists(fs, d)
        /\ fs[d] = GzipCompress(CipherEncrypt(Unwrap(tasks[w].gkey), Unwrap(tasks[w].gnonce),
                                              fs0[p]))

\* C18: when two ENCRYPT entries of a manifest resolve to the same existing
\* file P, in every interleaving exactly one of them renames and writes and
\* the other fails at its read or its rename; P.alp is at every moment the
\* original contents or their encryption under one entry's key, and in the
\* end the encryption under the key of the entry that succeeded.
C18_SamePathRaceBounded ==
    \A i, j \in 1..Len(tasks) :
        SameFileEncrypts(i, j)
            => /\ BatchOver => (WonBy(i, j) \/ WonBy(j, i))
               /\ ~(HasOp(tasks[i], "write") /\ HasOp(tasks[j], "write"))
               /\ LET d == DestinationPath(tasks[i])
                      orig == fs0[SourcePath(tasks[i])]
                  IN  Exists(fs, d)
                         => \/ fs[d] = orig
                            \/ \E w \in {i, j} :
                                  /\ HasOp(tasks[w], "write")
                                  /\ fs[d] = GzipCompress(CipherEncrypt(
                                         Unwrap(tasks[w].gkey), Unwrap(tasks[w].gnonce), orig))

\* Both entries read the file before either renamed it, under different
\* keys; the second one in the manifest won and the first failed at its
\* rename.
C18_Witness ==
    /\ BatchOver
    /\ Len(tasks) = 2
    /\ SameFileEncrypts(1, 2)
    /\ WonBy(2, 1)
    /\ tasks[1].why = "Failed to rename a file"
    /\ tasks[1].gkey # tasks[2].gkey

\* C19: for an ENCRYPT or DECRYPT entry under a recognized root whose base
\* directory the host supplies, the effective path is base/filepath only
\* when filepath is relative; an absolute filepath is the effective path
\* itself, whatever the root and the working directory.
C19_AbsoluteFilepathOverridesRoot ==
    \A t \in Tasks :
        (/\ t.pc # "pending"
         /\ Folded(t.action) \in {Folded(ActEncrypt), Folded(ActDecrypt)}
         /\ StatedBase(t.root, host)[1] = "base"
         /\ IsSome(StatedBase(t.root, host)[2]))
        => LET b == Unwrap(StatedBase(t.root, host)[2])
           IN  /\ t.why # "root"
               /\ IF IsAbsolute(t.filepath)
                  THEN /\ t.path = t.filepath
                       /\ \A d \in WorkingDirs : OsPath(d, t.path) = t.filepath
                  ELSE /\ t.path = b \o t.filepath
                       /\ t.path # t.filepath

\* An encrypt entry with root "home" and the absolute filepath /a/x was
\* resolved to /a/x on a host that has a home directory.
C19_Witness ==
    \E t \in Tasks :
        /\ t.kind = "ENCRYPT"
        /\ t.root = Some(<<"h", "o", "m", "e">>)
        /\ IsSome(host.home)
        /\ t.filepath = <<RootDir, <<"a">>, <<"x">>>>
        /\ t.path = t.filepath

=============================================================================
